---- MODULE Spec2Model ----
(***************************************************************************)
(* A model of the PSP22 token ledger (Cardinal-Cryptography/PSP22).        *)
(*                                                                         *)
(* PSP22Data (src/data.rs) holds total_supply, balances and allowances.    *)
(* Each of its methods is a pure operator from the ledger and the call's  *)
(* arguments to the ledger left behind, the Result and the returned        *)
(* events; one action per method applies it to the current ledger.         *)
(***************************************************************************)
EXTENDS Integers, Sequences, FiniteSets

\* Largest representable amount: stands for u128::MAX at a reduced width.
MaxAmount == 2

\* ink::env::test::default_accounts, as used by src/testing.rs.
Accounts == {"alice", "bob", "charlie"}

Amounts == 0..MaxAmount

\* The (owner, spender) pairs approve, increase_allowance and decrease_allowance
\* are called with: the grants of src/testing.rs (alice to bob, bob to charlie)
\* and every account to itself.
Grants ==
    {<<"alice", "bob">>, <<"bob", "charlie">>} \cup {<<a, a>> : a \in Accounts}

\* Option<AccountId>::None in a Transfer event.
None == "None"

\* A failed u128::checked_add.
Overflow == -1

VARIABLES
    total_supply,   \* PSP22Data.total_supply
    balances,       \* PSP22Data.balances: AccountId -> u128, partial
    allowances,     \* PSP22Data.allowances: (owner, spender) -> u128, partial
    call,           \* the last call made: the method and its arguments
    pre,            \* the ledger the last call was applied to
    result,         \* what the last call returned: "Ok" or the PSP22Error
    events          \* the Vec<PSP22Event> the last call returned

vars == <<total_supply, balances, allowances, call, pre, result, events>>

----------------------------------------------------------------------------
(* u128 arithmetic *)

saturating_add(a, b) == IF a + b > MaxAmount THEN MaxAmount ELSE a + b

saturating_sub(a, b) == IF a < b THEN 0 ELSE a - b

checked_add(a, b) == IF a + b > MaxAmount THEN Overflow ELSE a + b

----------------------------------------------------------------------------
(* ink::storage::Mapping *)

EmptyMapping == [k \in {} |-> 0]

\* Mapping::get(k).unwrap_or_default()
Get(m, k) == IF k \in DOMAIN m THEN m[k] ELSE 0

\* Mapping::insert(k, &v)
Insert(m, k, v) == [x \in (DOMAIN m) \cup {k} |-> IF x = k THEN v ELSE m[x]]

\* Mapping::remove(k)
Remove(m, k) == [x \in (DOMAIN m) \ {k} |-> m[x]]

----------------------------------------------------------------------------
(* events and errors *)

approval_event(owner, spender, amount) ==
    [type |-> "Approval", owner |-> owner, spender |-> spender, amount |-> amount]

transfer_event(from, to, value) ==
    [type |-> "Transfer", from |-> from, to |-> to, value |-> value]

InsufficientBalance == "InsufficientBalance"
InsufficientAllowance == "InsufficientAllowance"
Custom == "Custom"
Errors == {InsufficientBalance, InsufficientAllowance, Custom}

\* The error kinds of PSP22Error that PSP22Data never constructs.
ZeroRecipientAddress == "ZeroRecipientAddress"
ZeroSenderAddress == "ZeroSenderAddress"
SafeTransferCheckFailed == "SafeTransferCheckFailed"

----------------------------------------------------------------------------
(* PSP22Data *)

\* #[derive(Default)] PSP22Data
DefaultData ==
    [total_supply |-> 0, balances |-> EmptyMapping, allowances |-> EmptyMapping]

Data ==
    [total_supply |-> total_supply, balances |-> balances, allowances |-> allowances]

balance_of(d, owner) == Get(d.balances, owner)

allowance(d, owner, spender) == Get(d.allowances, <<owner, spender>>)

Ok(d, evs) == [data |-> d, result |-> "Ok", events |-> evs]

Err(d, e) == [data |-> d, result |-> e, events |-> <<>>]

\* transfer with one slip, named by m, in an otherwise faithful body.
transfer_with(d, caller, to, value, m) ==
    IF (m # "no_self_noop" /\ caller = to) \/ value = 0 THEN Ok(d, <<>>)
    ELSE
    LET from_balance == balance_of(d, caller)
        short_balance == IF m = "strict_balance" THEN from_balance <= value
                         ELSE from_balance < value
    IN
    IF short_balance THEN Err(d, InsufficientBalance)
    ELSE
    LET b1 == IF from_balance = value
              THEN Remove(d.balances, caller)
              ELSE Insert(d.balances, caller, saturating_sub(from_balance, value))
        to_balance == IF m = "overwrites_recipient" THEN 0 ELSE Get(b1, to)
        b2 == Insert(b1, to, saturating_add(to_balance, value))
    IN  Ok([d EXCEPT !.balances = b2],
           <<transfer_event(caller, to, value)>>)

\* caller == to is no longer a no-op.
transfer_no_self_noop(d, caller, to, value) ==
    transfer_with(d, caller, to, value, "no_self_noop")

\* A transfer of the whole balance is refused.
transfer_strict_balance(d, caller, to, value) ==
    transfer_with(d, caller, to, value, "strict_balance")

\* The recipient's balance is set to value, not raised by it.
transfer_overwrites_recipient(d, caller, to, value) ==
    transfer_with(d, caller, to, value, "overwrites_recipient")

transfer(d, caller, to, value) ==
    IF caller = to \/ value = 0 THEN Ok(d, <<>>)
    ELSE
    LET from_balance == balance_of(d, caller) IN
    IF from_balance < value THEN Err(d, InsufficientBalance)
    ELSE
    LET b1 == IF from_balance = value
              THEN Remove(d.balances, caller)
              ELSE Insert(d.balances, caller, saturating_sub(from_balance, value))
        to_balance == Get(b1, to)
        b2 == Insert(b1, to, saturating_add(to_balance, value))
    IN  Ok([d EXCEPT !.balances = b2],
           <<transfer_event(caller, to, value)>>)

\* transfer_from with one slip, named by m, in an otherwise faithful body.
transfer_from_with(d, caller, from, to, value, m) ==
    IF (m # "no_self_noop" /\ from = to) \/ value = 0 THEN Ok(d, <<>>)
    ELSE IF m # "no_shortcut" /\ caller = from THEN transfer(d, caller, to, value)
    ELSE
    LET allow == allowance(d, from, caller)
        from_balance == balance_of(d, from)
        short_balance == IF m = "strict_balance" THEN from_balance <= value
                         ELSE from_balance < value
        a1 == IF m = "keeps_allowance" THEN d.allowances
              ELSE IF allow = value
              THEN Remove(d.allowances, <<from, caller>>)
              ELSE Insert(d.allowances, <<from, caller>>, saturating_sub(allow, value))
        b1 == IF from_balance = value
              THEN Remove(d.balances, from)
              ELSE Insert(d.balances, from, saturating_sub(from_balance, value))
        to_balance == Get(b1, to)
        b2 == Insert(b1, to, saturating_add(to_balance, value))
    IN
    IF m = "balance_first" /\ short_balance THEN Err(d, InsufficientBalance)
    ELSE IF allow < value THEN Err(d, InsufficientAllowance)
    ELSE IF short_balance
    THEN Err(IF m = "writes_first" THEN [d EXCEPT !.allowances = a1] ELSE d,
             InsufficientBalance)
    ELSE Ok([d EXCEPT !.allowances = a1, !.balances = b2],
            <<approval_event(from, caller,
                             IF m = "stale_approval" THEN allow
                             ELSE saturating_sub(allow, value)),
              transfer_event(from, to, value)>>)

\* The allowance is spent before the balance is checked.
transfer_from_writes_first(d, caller, from, to, value) ==
    transfer_from_with(d, caller, from, to, value, "writes_first")

\* The balance is checked before the allowance.
transfer_from_balance_first(d, caller, from, to, value) ==
    transfer_from_with(d, caller, from, to, value, "balance_first")

\* The Approval event carries the allowance before the call.
transfer_from_stale_approval(d, caller, from, to, value) ==
    transfer_from_with(d, caller, from, to, value, "stale_approval")

\* The allowance is not spent.
transfer_from_keeps_allowance(d, caller, from, to, value) ==
    transfer_from_with(d, caller, from, to, value, "keeps_allowance")

\* An account needs an allowance from itself.
transfer_from_no_shortcut(d, caller, from, to, value) ==
    transfer_from_with(d, caller, from, to, value, "no_shortcut")

\* from == to is no longer a no-op.
transfer_from_no_self_noop(d, caller, from, to, value) ==
    transfer_from_with(d, caller, from, to, value, "no_self_noop")

\* A transfer of the whole balance is refused.
transfer_from_strict_balance(d, caller, from, to, value) ==
    transfer_from_with(d, caller, from, to, value, "strict_balance")

transfer_from(d, caller, from, to, value) ==
    IF from = to \/ value = 0 THEN Ok(d, <<>>)
    ELSE IF caller = from THEN transfer(d, caller, to, value)
    ELSE
    LET allow == allowance(d, from, caller) IN
    IF allow < value THEN Err(d, InsufficientAllowance)
    ELSE
    LET from_balance == balance_of(d, from) IN
    IF from_balance < value THEN Err(d, InsufficientBalance)
    ELSE
    LET a1 == IF allow = value
              THEN Remove(d.allowances, <<from, caller>>)
              ELSE Insert(d.allowances, <<from, caller>>, saturating_sub(allow, value))
        b1 == IF from_balance = value
              THEN Remove(d.balances, from)
              ELSE Insert(d.balances, from, saturating_sub(from_balance, value))
        to_balance == Get(b1, to)
        b2 == Insert(b1, to, saturating_add(to_balance, value))
    IN  Ok([d EXCEPT !.allowances = a1, !.balances = b2],
           <<approval_event(from, caller, saturating_sub(allow, value)),
             transfer_event(from, to, value)>>)

\* The value is added to the allowance already granted.
approve_additive(d, owner, spender, value) ==
    IF owner = spender THEN Ok(d, <<>>)
    ELSE
    LET amount == saturating_add(allowance(d, owner, spender), value)
        a1 == IF amount = 0
              THEN Remove(d.allowances, <<owner, spender>>)
              ELSE Insert(d.allowances, <<owner, spender>>, amount)
    IN  Ok([d EXCEPT !.allowances = a1], <<approval_event(owner, spender, amount)>>)

\* Approving 0 removes the entry but returns no event.
approve_zero_silent(d, owner, spender, value) ==
    IF owner = spender THEN Ok(d, <<>>)
    ELSE IF value = 0
    THEN Ok([d EXCEPT !.allowances = Remove(d.allowances, <<owner, spender>>)], <<>>)
    ELSE Ok([d EXCEPT !.allowances = Insert(d.allowances, <<owner, spender>>, value)],
            <<approval_event(owner, spender, value)>>)

\* The entry written is (spender, owner).
approve_swapped_key(d, owner, spender, value) ==
    IF owner = spender THEN Ok(d, <<>>)
    ELSE
    LET a1 == IF value = 0
              THEN Remove(d.allowances, <<spender, owner>>)
              ELSE Insert(d.allowances, <<spender, owner>>, value)
    IN  Ok([d EXCEPT !.allowances = a1], <<approval_event(owner, spender, value)>>)

\* An account may approve itself.
approve_no_self_noop(d, owner, spender, value) ==
    LET a1 == IF value = 0
              THEN Remove(d.allowances, <<owner, spender>>)
              ELSE Insert(d.allowances, <<owner, spender>>, value)
    IN  Ok([d EXCEPT !.allowances = a1], <<approval_event(owner, spender, value)>>)

approve(d, owner, spender, value) ==
    IF owner = spender THEN Ok(d, <<>>)
    ELSE
    LET a1 == IF value = 0
              THEN Remove(d.allowances, <<owner, spender>>)
              ELSE Insert(d.allowances, <<owner, spender>>, value)
    IN  Ok([d EXCEPT !.allowances = a1], <<approval_event(owner, spender, value)>>)

\* increase_allowance with one slip, named by m, in an otherwise faithful body.
increase_allowance_with(d, owner, spender, delta_value, m) ==
    IF owner = spender \/ (m # "no_zero_noop" /\ delta_value = 0) THEN Ok(d, <<>>)
    ELSE
    LET allow == allowance(d, owner, spender)
        amount == IF m = "overwrites" THEN delta_value
                  ELSE IF m = "wrapping" THEN (allow + delta_value) % (MaxAmount + 1)
                  ELSE saturating_add(allow, delta_value)
    IN  Ok([d EXCEPT !.allowances = Insert(d.allowances, <<owner, spender>>, amount)],
           <<approval_event(owner, spender, amount)>>)

\* The allowance is set to delta_value, not raised by it.
increase_allowance_overwrites(d, owner, spender, delta_value) ==
    increase_allowance_with(d, owner, spender, delta_value, "overwrites")

\* The addition wraps around instead of saturating.
increase_allowance_wrapping(d, owner, spender, delta_value) ==
    increase_allowance_with(d, owner, spender, delta_value, "wrapping")

\* delta_value == 0 is no longer a no-op.
increase_allowance_no_zero_noop(d, owner, spender, delta_value) ==
    increase_allowance_with(d, owner, spender, delta_value, "no_zero_noop")

increase_allowance(d, owner, spender, delta_value) ==
    IF owner = spender \/ delta_value = 0 THEN Ok(d, <<>>)
    ELSE
    LET allow == allowance(d, owner, spender)
        amount == saturating_add(allow, delta_value)
    IN  Ok([d EXCEPT !.allowances = Insert(d.allowances, <<owner, spender>>, amount)],
           <<approval_event(owner, spender, amount)>>)

\* decrease_allowance with one slip, named by m, in an otherwise faithful body.
decrease_allowance_with(d, owner, spender, delta_value, m) ==
    IF (m # "no_self_noop" /\ owner = spender) \/ delta_value = 0 THEN Ok(d, <<>>)
    ELSE
    LET allow == allowance(d, owner, spender) IN
    IF allow < delta_value THEN Err(d, InsufficientAllowance)
    ELSE
    LET amount == saturating_sub(allow, delta_value)
        a1 == IF m # "stores_zero" /\ amount = 0
              THEN Remove(d.allowances, <<owner, spender>>)
              ELSE Insert(d.allowances, <<owner, spender>>, amount)
    IN  Ok([d EXCEPT !.allowances = a1], <<approval_event(owner, spender, amount)>>)

\* owner == spender is no longer a no-op.
decrease_allowance_no_self_noop(d, owner, spender, delta_value) ==
    decrease_allowance_with(d, owner, spender, delta_value, "no_self_noop")

\* An allowance that reaches 0 is stored as 0.
decrease_allowance_stores_zero(d, owner, spender, delta_value) ==
    decrease_allowance_with(d, owner, spender, delta_value, "stores_zero")

decrease_allowance(d, owner, spender, delta_value) ==
    IF owner = spender \/ delta_value = 0 THEN Ok(d, <<>>)
    ELSE
    LET allow == allowance(d, owner, spender) IN
    IF allow < delta_value THEN Err(d, InsufficientAllowance)
    ELSE
    LET amount == saturating_sub(allow, delta_value)
        a1 == IF amount = 0
              THEN Remove(d.allowances, <<owner, spender>>)
              ELSE Insert(d.allowances, <<owner, spender>>, amount)
    IN  Ok([d EXCEPT !.allowances = a1], <<approval_event(owner, spender, amount)>>)

\* The new supply is clamped like the balances are, not checked.
mint_saturating(d, to, value) ==
    IF value = 0 THEN Ok(d, <<>>)
    ELSE
    LET new_supply == saturating_add(d.total_supply, value)
        new_balance == saturating_add(balance_of(d, to), value)
    IN  Ok([d EXCEPT !.total_supply = new_supply,
                     !.balances = Insert(d.balances, to, new_balance)],
           <<transfer_event(None, to, value)>>)

\* mint with one slip, named by m, in an otherwise faithful body.
mint_with(d, to, value, m) ==
    IF value = 0 THEN Ok(d, <<>>)
    ELSE
    LET new_supply == IF m = "strict_overflow"
                         /\ d.total_supply + value >= MaxAmount
                      THEN Overflow
                      ELSE checked_add(d.total_supply, value)
    IN
    IF new_supply = Overflow THEN Err(d, Custom)
    ELSE
    LET new_balance == IF m = "overwrites_balance" THEN value
                       ELSE saturating_add(balance_of(d, to), value)
        supply1 == IF m = "keeps_supply" THEN d.total_supply ELSE new_supply
    IN  Ok([d EXCEPT !.total_supply = supply1,
                     !.balances = Insert(d.balances, to, new_balance)],
           <<transfer_event(None, to, value)>>)

\* The recipient's balance is set to value, not raised by it.
mint_overwrites_balance(d, to, value) == mint_with(d, to, value, "overwrites_balance")

\* A mint that reaches the maximum amount exactly is refused as an overflow.
mint_strict_overflow(d, to, value) == mint_with(d, to, value, "strict_overflow")

\* total_supply is not raised, so nothing bounds the balances.
mint_keeps_supply(d, to, value) == mint_with(d, to, value, "keeps_supply")

mint(d, to, value) ==
    IF value = 0 THEN Ok(d, <<>>)
    ELSE
    LET new_supply == checked_add(d.total_supply, value) IN
    IF new_supply = Overflow THEN Err(d, Custom)
    ELSE
    LET new_balance == saturating_add(balance_of(d, to), value)
    IN  Ok([d EXCEPT !.total_supply = new_supply,
                     !.balances = Insert(d.balances, to, new_balance)],
           <<transfer_event(None, to, value)>>)

\* The burnt tokens stay in total_supply.
burn_keeps_supply(d, from, value) ==
    IF value = 0 THEN Ok(d, <<>>)
    ELSE
    LET balance == balance_of(d, from) IN
    IF balance < value THEN Err(d, InsufficientBalance)
    ELSE
    LET b1 == IF balance = value
              THEN Remove(d.balances, from)
              ELSE Insert(d.balances, from, saturating_sub(balance, value))
    IN  Ok([d EXCEPT !.balances = b1], <<transfer_event(from, None, value)>>)

\* burn with one slip, named by m, in an otherwise faithful body.
burn_with(d, from, value, m) ==
    IF value = 0 THEN Ok(d, <<>>)
    ELSE
    LET balance == balance_of(d, from)
        short_balance == IF m = "strict_balance" THEN balance <= value
                         ELSE balance < value
    IN
    IF short_balance THEN Err(d, InsufficientBalance)
    ELSE
    LET b1 == IF m # "stores_zero" /\ balance = value
              THEN Remove(d.balances, from)
              ELSE Insert(d.balances, from, saturating_sub(balance, value))
    IN  Ok([d EXCEPT !.balances = b1,
                     !.total_supply = saturating_sub(d.total_supply, value)],
           <<transfer_event(from, None, value)>>)

\* A burn of the whole balance is refused.
burn_strict_balance(d, from, value) == burn_with(d, from, value, "strict_balance")

\* A balance that reaches 0 is stored as 0.
burn_stores_zero(d, from, value) == burn_with(d, from, value, "stores_zero")

burn(d, from, value) ==
    IF value = 0 THEN Ok(d, <<>>)
    ELSE
    LET balance == balance_of(d, from) IN
    IF balance < value THEN Err(d, InsufficientBalance)
    ELSE
    LET b1 == IF balance = value
              THEN Remove(d.balances, from)
              ELSE Insert(d.balances, from, saturating_sub(balance, value))
    IN  Ok([d EXCEPT !.balances = b1,
                     !.total_supply = saturating_sub(d.total_supply, value)],
           <<transfer_event(from, None, value)>>)

\* burn_from with one slip, named by m, in an otherwise faithful body.
burn_from_with(d, caller, from, value, m) ==
    IF m # "no_zero_noop" /\ value = 0 THEN Ok(d, <<>>)
    ELSE
    LET allow == IF m = "own_shortcut" /\ caller = from THEN value
                 ELSE allowance(d, from, caller)
        balance == balance_of(d, from)
        key == IF m = "swapped_key" THEN <<caller, from>> ELSE <<from, caller>>
        a1 == IF m = "keeps_allowance" \/ (m = "own_shortcut" /\ caller = from)
              THEN d.allowances
              ELSE IF allow = value
              THEN Remove(d.allowances, key)
              ELSE Insert(d.allowances, key, saturating_sub(allow, value))
        event == IF m = "mint_event" THEN transfer_event(None, from, value)
                 ELSE transfer_event(from, None, value)
        b1 == IF balance = value
              THEN Remove(d.balances, from)
              ELSE Insert(d.balances, from, saturating_sub(balance, value))
    IN
    IF m = "balance_first" /\ balance < value THEN Err(d, InsufficientBalance)
    ELSE IF allow < value THEN Err(d, InsufficientAllowance)
    ELSE IF balance < value THEN Err(d, InsufficientBalance)
    ELSE Ok([d EXCEPT !.allowances = a1, !.balances = b1,
                      !.total_supply = saturating_sub(d.total_supply, value)],
            <<event>>)

\* value == 0 is no longer a no-op.
burn_from_no_zero_noop(d, caller, from, value) ==
    burn_from_with(d, caller, from, value, "no_zero_noop")

\* The balance is checked before the allowance.
burn_from_balance_first(d, caller, from, value) ==
    burn_from_with(d, caller, from, value, "balance_first")

\* The allowance is not spent.
burn_from_keeps_allowance(d, caller, from, value) ==
    burn_from_with(d, caller, from, value, "keeps_allowance")

\* The allowance entry written is (caller, from).
burn_from_swapped_key(d, caller, from, value) ==
    burn_from_with(d, caller, from, value, "swapped_key")

\* An account may burn its own tokens without an allowance, as in transfer_from.
burn_from_own_shortcut(d, caller, from, value) ==
    burn_from_with(d, caller, from, value, "own_shortcut")

\* The hand-written event has from and to swapped.
burn_from_mint_event(d, caller, from, value) ==
    burn_from_with(d, caller, from, value, "mint_event")

burn_from(d, caller, from, value) ==
    IF value = 0 THEN Ok(d, <<>>)
    ELSE
    LET allow == allowance(d, from, caller) IN
    IF allow < value THEN Err(d, InsufficientAllowance)
    ELSE
    LET balance == balance_of(d, from) IN
    IF balance < value THEN Err(d, InsufficientBalance)
    ELSE
    LET a1 == IF allow = value
              THEN Remove(d.allowances, <<from, caller>>)
              ELSE Insert(d.allowances, <<from, caller>>, saturating_sub(allow, value))
        b1 == IF balance = value
              THEN Remove(d.balances, from)
              ELSE Insert(d.balances, from, saturating_sub(balance, value))
    IN  Ok([d EXCEPT !.allowances = a1, !.balances = b1,
                     !.total_supply = saturating_sub(d.total_supply, value)],
           <<transfer_event(from, None, value)>>)

\* The supply is stored directly, as in src/types.rs, and no event is returned.
new_stores_supply(supply, creator) ==
    Ok([DefaultData EXCEPT !.total_supply = supply,
                           !.balances = Insert(DefaultData.balances, creator, supply)],
       <<>>)

\* The ledger is built with total_supply already set, as in src/types.rs, and
\* then minted to.
new_presets_supply(supply, creator) ==
    mint([DefaultData EXCEPT !.total_supply = supply], creator, supply)

\* PSP22Data::new: mint(creator, supply) on the default ledger, unwrapped; a
\* result other than "Ok" is the panic of the unwrap.
new(supply, creator) == mint(DefaultData, creator, supply)

----------------------------------------------------------------------------
(* The example contract Token (src/lib.rs) on the PSP22Data of src/types.rs: *)
(* its constructor stores the supply directly, and its messages update the   *)
(* ledger's fields inline, with the caller taken from the environment.       *)

\* PSP22Data::new of src/types.rs
types_new(supply, creator) ==
    LET data == [total_supply |-> supply,
                 balances |-> EmptyMapping,
                 allowances |-> EmptyMapping]
    IN  [data EXCEPT !.balances = Insert(data.balances, creator, supply)]

\* Token::new: the caller of the constructor is the creator.
Token_new(supply, caller) == types_new(supply, caller)

Token_transfer(d, caller, to, value) ==
    LET from == caller IN
    IF from = to \/ value = 0 THEN Ok(d, <<>>)
    ELSE
    LET from_balance == Get(d.balances, from) IN
    IF from_balance < value THEN Err(d, InsufficientBalance)
    ELSE
    LET b1 == IF from_balance = value
              THEN Remove(d.balances, from)
              ELSE Insert(d.balances, from, saturating_sub(from_balance, value))
        to_balance == Get(b1, to)
        b2 == Insert(b1, to, saturating_add(to_balance, value))
    IN  Ok([d EXCEPT !.balances = b2], <<transfer_event(from, to, value)>>)

\* The Transfer event is emitted before the Approval event.
Token_transfer_from_transfer_first(d, caller, from, to, value) ==
    IF from = to \/ value = 0 THEN Ok(d, <<>>)
    ELSE IF caller = from THEN Token_transfer(d, caller, to, value)
    ELSE
    LET allow == Get(d.allowances, <<from, caller>>) IN
    IF allow < value THEN Err(d, InsufficientAllowance)
    ELSE
    LET from_balance == Get(d.balances, from) IN
    IF from_balance < value THEN Err(d, InsufficientBalance)
    ELSE
    LET a1 == IF allow = value
              THEN Remove(d.allowances, <<from, caller>>)
              ELSE Insert(d.allowances, <<from, caller>>, saturating_sub(allow, value))
        b1 == IF from_balance = value
              THEN Remove(d.balances, from)
              ELSE Insert(d.balances, from, saturating_sub(from_balance, value))
        to_balance == Get(b1, to)
        b2 == Insert(b1, to, saturating_add(to_balance, value))
    IN  Ok([d EXCEPT !.allowances = a1, !.balances = b2],
           <<transfer_event(from, to, value),
             approval_event(from, caller, saturating_sub(allow, value))>>)

Token_transfer_from(d, caller, from, to, value) ==
    IF from = to \/ value = 0 THEN Ok(d, <<>>)
    ELSE IF caller = from THEN Token_transfer(d, caller, to, value)
    ELSE
    LET allow == Get(d.allowances, <<from, caller>>) IN
    IF allow < value THEN Err(d, InsufficientAllowance)
    ELSE
    LET from_balance == Get(d.balances, from) IN
    IF from_balance < value THEN Err(d, InsufficientBalance)
    ELSE
    LET a1 == IF allow = value
              THEN Remove(d.allowances, <<from, caller>>)
              ELSE Insert(d.allowances, <<from, caller>>, saturating_sub(allow, value))
        b1 == IF from_balance = value
              THEN Remove(d.balances, from)
              ELSE Insert(d.balances, from, saturating_sub(from_balance, value))
        to_balance == Get(b1, to)
        b2 == Insert(b1, to, saturating_add(to_balance, value))
    IN  Ok([d EXCEPT !.allowances = a1, !.balances = b2],
           <<approval_event(from, caller, saturating_sub(allow, value)),
             transfer_event(from, to, value)>>)

Token_approve(d, caller, spender, value) ==
    LET owner == caller IN
    IF owner = spender THEN Ok(d, <<>>)
    ELSE
    LET a1 == IF value = 0
              THEN Remove(d.allowances, <<owner, spender>>)
              ELSE Insert(d.allowances, <<owner, spender>>, value)
    IN  Ok([d EXCEPT !.allowances = a1], <<approval_event(owner, spender, value)>>)

Token_increase_allowance(d, caller, spender, delta_value) ==
    LET owner == caller IN
    IF owner = spender \/ delta_value = 0 THEN Ok(d, <<>>)
    ELSE
    LET allow == Get(d.allowances, <<owner, spender>>)
        amount == saturating_add(allow, delta_value)
    IN  Ok([d EXCEPT !.allowances = Insert(d.allowances, <<owner, spender>>, amount)],
           <<approval_event(owner, spender, amount)>>)

Token_decrease_allowance(d, caller, spender, delta_value) ==
    LET owner == caller IN
    IF owner = spender \/ delta_value = 0 THEN Ok(d, <<>>)
    ELSE
    LET allow == Get(d.allowances, <<owner, spender>>) IN
    IF allow < delta_value THEN Err(d, InsufficientAllowance)
    ELSE
    LET amount == saturating_sub(allow, delta_value)
        a1 == IF amount = 0
              THEN Remove(d.allowances, <<owner, spender>>)
              ELSE Insert(d.allowances, <<owner, spender>>, amount)
    IN  Ok([d EXCEPT !.allowances = a1], <<approval_event(owner, spender, amount)>>)

----------------------------------------------------------------------------
(* the state machine *)

\* The last call r.data, r.result and r.events are what call c left behind.
Returned(c, r) ==
    \E ret \in {r} :
        /\ pre' = Data
        /\ call' = c
        /\ total_supply' = ret.data.total_supply
        /\ balances' = ret.data.balances
        /\ allowances' = ret.data.allowances
        /\ result' = ret.result
        /\ events' = ret.events

Init ==
    \E supply \in Amounts, creator \in Accounts :
        LET r == new(supply, creator) IN
        /\ pre = DefaultData
        /\ call = [op |-> "new", creator |-> creator, supply |-> supply]
        /\ total_supply = r.data.total_supply
        /\ balances = r.data.balances
        /\ allowances = r.data.allowances
        /\ result = r.result
        /\ events = r.events

Transfer ==
    \E caller \in Accounts, to \in Accounts, value \in Amounts :
        Returned([op |-> "transfer", caller |-> caller, to |-> to, value |-> value],
                 transfer(Data, caller, to, value))

TransferFrom ==
    \E caller \in Accounts, from \in Accounts, to \in Accounts, value \in Amounts :
        Returned([op |-> "transfer_from", caller |-> caller, from |-> from,
                  to |-> to, value |-> value],
                 transfer_from(Data, caller, from, to, value))

Approve ==
    \E g \in Grants, value \in Amounts :
        Returned([op |-> "approve", owner |-> g[1], spender |-> g[2],
                  value |-> value],
                 approve(Data, g[1], g[2], value))

IncreaseAllowance ==
    \E g \in Grants, delta_value \in Amounts :
        Returned([op |-> "increase_allowance", owner |-> g[1], spender |-> g[2],
                  value |-> delta_value],
                 increase_allowance(Data, g[1], g[2], delta_value))

DecreaseAllowance ==
    \E g \in Grants, delta_value \in Amounts :
        Returned([op |-> "decrease_allowance", owner |-> g[1], spender |-> g[2],
                  value |-> delta_value],
                 decrease_allowance(Data, g[1], g[2], delta_value))

Mint ==
    \E to \in Accounts, value \in Amounts :
        Returned([op |-> "mint", to |-> to, value |-> value],
                 mint(Data, to, value))

Burn ==
    \E from \in Accounts, value \in Amounts :
        Returned([op |-> "burn", from |-> from, value |-> value],
                 burn(Data, from, value))

BurnFrom ==
    \E caller \in Accounts, from \in Accounts, value \in Amounts :
        Returned([op |-> "burn_from", caller |-> caller, from |-> from,
                  value |-> value],
                 burn_from(Data, caller, from, value))

Next ==
    \/ Transfer
    \/ TransferFrom
    \/ Approve
    \/ IncreaseAllowance
    \/ DecreaseAllowance
    \/ Mint
    \/ Burn
    \/ BurnFrom

Spec == Init /\ [][Next]_vars

----------------------------------------------------------------------------
(* Token's state machine: constructed by Token::new, driven by its messages. *)

InitToken ==
    \E supply \in Amounts, caller \in Accounts :
        LET d == Token_new(supply, caller) IN
        /\ pre = DefaultData
        /\ call = [op |-> "Token::new", caller |-> caller, supply |-> supply]
        /\ total_supply = d.total_supply
        /\ balances = d.balances
        /\ allowances = d.allowances
        /\ result = "Ok"
        /\ events = <<>>

TokenTransfer ==
    \E caller \in Accounts, to \in Accounts, value \in Amounts :
        Returned([op |-> "Token::transfer", caller |-> caller, to |-> to,
                  value |-> value],
                 Token_transfer(Data, caller, to, value))

TokenTransferFrom ==
    \E caller \in Accounts, from \in Accounts, to \in Accounts, value \in Amounts :
        Returned([op |-> "Token::transfer_from", caller |-> caller, from |-> from,
                  to |-> to, value |-> value],
                 Token_transfer_from(Data, caller, from, to, value))

TokenApprove ==
    \E g \in Grants, value \in Amounts :
        Returned([op |-> "Token::approve", caller |-> g[1], spender |-> g[2],
                  value |-> value],
                 Token_approve(Data, g[1], g[2], value))

TokenIncreaseAllowance ==
    \E g \in Grants, delta_value \in Amounts :
        Returned([op |-> "Token::increase_allowance", caller |-> g[1],
                  spender |-> g[2], value |-> delta_value],
                 Token_increase_allowance(Data, g[1], g[2], delta_value))

TokenDecreaseAllowance ==
    \E g \in Grants, delta_value \in Amounts :
        Returned([op |-> "Token::decrease_allowance", caller |-> g[1],
                  spender |-> g[2], value |-> delta_value],
                 Token_decrease_allowance(Data, g[1], g[2], delta_value))

NextToken ==
    \/ TokenTransfer
    \/ TokenTransferFrom
    \/ TokenApprove
    \/ TokenIncreaseAllowance
    \/ TokenDecreaseAllowance

SpecToken == InitToken /\ [][NextToken]_vars

----------------------------------------------------------------------------
(* Properties *)

RECURSIVE SumOver(_, _)
\* The sum of m's values over the keys ks.
SumOver(m, ks) ==
    IF ks = {} THEN 0
    ELSE LET k == CHOOSE x \in ks : TRUE IN m[k] + SumOver(m, ks \ {k})

SumOfBalances == SumOver(balances, DOMAIN balances)

\* The last call was transfer_from by a spender other than the owner, between
\* two different accounts, of a positive value.
Delegated ==
    /\ call.op = "transfer_from"
    /\ call.caller # call.from
    /\ call.from # call.to
    /\ call.value > 0

\* C1: after construction and after every call, whatever it returned,
\* total_supply is the sum of all stored balances.
C1_SupplyIsSumOfBalances == total_supply = SumOfBalances

\* A burn that left tokens behind.
C1_Witness ==
    /\ call.op = "burn"
    /\ result = "Ok"
    /\ call.value > 0
    /\ total_supply = pre.total_supply - call.value
    /\ total_supply > 0

\* C2: no key of balances and no key of allowances is stored with value 0,
\* from construction with any supply (0 included) onwards.
C2_NoZeroStored ==
    /\ \A a \in DOMAIN balances : balances[a] # 0
    /\ \A k \in DOMAIN allowances : allowances[k] # 0

\* C3: a call that returns Err leaves total_supply, every balance and every
\* allowance as they were before it, and produces no event.
C3_ErrChangesNothing ==
    result \in Errors => (Data = pre /\ events = <<>>)

\* transfer_from refused for lack of balance, with allowances in store.
C3_Witness ==
    /\ call.op = "transfer_from"
    /\ result = InsufficientBalance
    /\ pre.allowances # EmptyMapping
    /\ pre.total_supply > 0

\* C4: total_supply never exceeds the maximum amount, and a mint of a positive
\* value that would take it beyond returns Err(Custom) and leaves total_supply
\* and the balances unchanged.
C4_MintOverflowFails ==
    /\ total_supply <= MaxAmount
    /\ (call.op = "mint" /\ call.value > 0
            /\ pre.total_supply + call.value > MaxAmount)
       => (result = Custom /\ total_supply = pre.total_supply
             /\ balances = pre.balances)

\* mint of the maximum amount on a supply that is already positive.
C4_Witness ==
    /\ call.op = "mint"
    /\ call.value = MaxAmount
    /\ pre.total_supply > 0
    /\ result = Custom

\* C5: a delegated transfer_from of more than the allowance returns
\* InsufficientAllowance, whatever the owner's balance.
C5_AllowanceCheckedFirst ==
    (Delegated /\ allowance(pre, call.from, call.caller) < call.value)
        => result = InsufficientAllowance

\* Both the allowance and the balance are positive and too small.
C5_Witness ==
    /\ Delegated
    /\ allowance(pre, call.from, call.caller) \in 1..(call.value - 1)
    /\ balance_of(pre, call.from) \in 1..(call.value - 1)
    /\ result = InsufficientAllowance

\* C6: a successful delegated transfer_from returns exactly two events:
\* Approval(from, caller, the allowance after the call), then
\* Transfer(from, to, value).
C6_ApprovalThenTransfer ==
    (Delegated /\ result = "Ok")
        => events = << approval_event(call.from, call.caller,
                                      allowance(Data, call.from, call.caller)),
                       transfer_event(call.from, call.to, call.value) >>

\* A delegated transfer_from that left part of the allowance.
C6_Witness ==
    /\ Delegated
    /\ result = "Ok"
    /\ Len(events) = 2
    /\ events[1].type = "Approval"
    /\ events[1].amount > 0

\* C7: a successful delegated transfer_from takes value from
\* allowance(from, caller), removing the entry at 0, takes value from from's
\* balance and adds value to to's balance.
C7_SpendsAllowanceMovesBalance ==
    (Delegated /\ result = "Ok")
        => /\ allowance(Data, call.from, call.caller)
                = allowance(pre, call.from, call.caller) - call.value
           /\ (allowance(Data, call.from, call.caller) = 0
                 => <<call.from, call.caller>> \notin DOMAIN allowances)
           /\ balance_of(Data, call.from) = balance_of(pre, call.from) - call.value
           /\ balance_of(Data, call.to) = balance_of(pre, call.to) + call.value

\* The spender used up the allowance, sending to a third account.
C7_Witness ==
    /\ Delegated
    /\ result = "Ok"
    /\ call.caller # call.to
    /\ <<call.from, call.caller>> \in DOMAIN pre.allowances
    /\ <<call.from, call.caller>> \notin DOMAIN allowances
    /\ balance_of(Data, call.to) = call.value

\* The last call was transfer_from by the owner itself to another account, of
\* a positive value.
OwnTransferFrom ==
    /\ call.op = "transfer_from"
    /\ call.caller = call.from
    /\ call.from # call.to
    /\ call.value > 0

\* C8: transfer_from by the owner itself has the result, the ledger and the
\* events of transfer(caller, to, value): no allowance is needed or changed,
\* and success gives the single Transfer event and no Approval.
C8_OwnTransferFromIsTransfer ==
    OwnTransferFrom
        => /\ [data |-> Data, result |-> result, events |-> events]
                = transfer(pre, call.caller, call.to, call.value)
           /\ allowances = pre.allowances
           /\ result # InsufficientAllowance
           /\ (balance_of(pre, call.caller) >= call.value
                 => /\ result = "Ok"
                    /\ events = <<transfer_event(call.caller, call.to, call.value)>>
                    /\ balance_of(Data, call.caller)
                         = balance_of(pre, call.caller) - call.value
                    /\ balance_of(Data, call.to)
                         = balance_of(pre, call.to) + call.value)

\* The owner moved its own tokens while no allowance was stored at all.
C8_Witness ==
    /\ OwnTransferFrom
    /\ pre.allowances = EmptyMapping
    /\ result = "Ok"
    /\ Len(events) = 1

\* C9: transfer_from with from == to or value == 0 returns Ok with no events
\* and changes nothing, for every caller.
C9_TransferFromNoOp ==
    (call.op = "transfer_from" /\ (call.from = call.to \/ call.value = 0))
        => (result = "Ok" /\ events = <<>> /\ Data = pre)

\* A caller without allowance moves, from an account to itself, more than the
\* account's balance and the total supply.
C9_Witness ==
    /\ call.op = "transfer_from"
    /\ call.from = call.to
    /\ call.caller # call.from
    /\ allowance(pre, call.from, call.caller) = 0
    /\ call.value > balance_of(pre, call.from)
    /\ call.value > pre.total_supply
    /\ result = "Ok"

\* C10: a delegated transfer_from within the allowance returns
\* InsufficientBalance exactly when from's balance is below value.
C10_BalanceCheckedSecond ==
    (Delegated /\ allowance(pre, call.from, call.caller) >= call.value)
        => (result = InsufficientBalance <=> balance_of(pre, call.from) < call.value)

\* The allowance covers the value, the owner's positive balance does not.
C10_Witness ==
    /\ Delegated
    /\ allowance(pre, call.from, call.caller) >= call.value
    /\ balance_of(pre, call.from) \in 1..(call.value - 1)
    /\ result = InsufficientBalance

\* C11: transfer with caller == to or value == 0 returns Ok with no events and
\* changes no balance, no allowance and not total_supply.
C11_TransferNoOp ==
    (call.op = "transfer" /\ (call.caller = call.to \/ call.value = 0))
        => (result = "Ok" /\ events = <<>> /\ Data = pre)

\* An account sends itself more than its balance and more than the supply.
C11_Witness ==
    /\ call.op = "transfer"
    /\ call.caller = call.to
    /\ call.value > balance_of(pre, call.caller)
    /\ call.value > pre.total_supply
    /\ result = "Ok"

\* The last call was transfer to another account of a positive value.
RealTransfer ==
    /\ call.op = "transfer"
    /\ call.caller # call.to
    /\ call.value > 0

\* C12: a transfer to another account of a positive value returns
\* InsufficientBalance exactly when the caller's balance is below value, and
\* Ok otherwise.
C12_TransferNeedsBalance ==
    RealTransfer
        => /\ result = InsufficientBalance <=> balance_of(pre, call.caller) < call.value
           /\ result = "Ok" <=> balance_of(pre, call.caller) >= call.value

\* A caller with no balance entry is refused while others hold tokens.
C12_Witness ==
    /\ RealTransfer
    /\ call.caller \notin DOMAIN pre.balances
    /\ pre.total_supply > 0
    /\ result = InsufficientBalance

\* C13: a successful transfer to another account of a positive value takes
\* value from the caller's balance, adds it to to's balance and returns the one
\* event Transfer(caller, to, value).
C13_TransferMovesBalance ==
    (RealTransfer /\ result = "Ok")
        => /\ balance_of(Data, call.caller) = balance_of(pre, call.caller) - call.value
           /\ balance_of(Data, call.to) = balance_of(pre, call.to) + call.value
           /\ events = <<transfer_event(call.caller, call.to, call.value)>>

\* Tokens went to an account that already held some.
C13_Witness ==
    /\ RealTransfer
    /\ result = "Ok"
    /\ balance_of(pre, call.to) > 0
    /\ balance_of(Data, call.to) = balance_of(pre, call.to) + call.value
    /\ Len(events) = 1

\* C14: approve with owner != spender succeeds for every value, leaves
\* allowance(owner, spender) == value whatever it was (no entry for 0), and
\* returns the one event Approval(owner, spender, value).
C14_ApproveOverwrites ==
    (call.op = "approve" /\ call.owner # call.spender)
        => /\ result = "Ok"
           /\ allowance(Data, call.owner, call.spender) = call.value
           /\ (call.value = 0 => <<call.owner, call.spender>> \notin DOMAIN allowances)
           /\ events = <<approval_event(call.owner, call.spender, call.value)>>

\* An allowance is replaced by a larger one that exceeds the owner's balance
\* and the total supply.
C14_Witness ==
    /\ call.op = "approve"
    /\ call.owner # call.spender
    /\ allowance(pre, call.owner, call.spender) \in 1..(call.value - 1)
    /\ call.value > pre.total_supply
    /\ allowance(Data, call.owner, call.spender) = call.value

\* C15: approve, increase_allowance and decrease_allowance with
\* owner == spender return Ok with no events and change nothing, for every
\* amount; decrease_allowance in particular does not fail.
C15_SelfApprovalNoOp ==
    (call.op \in {"approve", "increase_allowance", "decrease_allowance"}
        /\ call.owner = call.spender)
        => (result = "Ok" /\ events = <<>> /\ Data = pre)

\* An account lowers the allowance it never had from itself.
C15_Witness ==
    /\ call.op = "decrease_allowance"
    /\ call.owner = call.spender
    /\ call.value > 0
    /\ allowance(pre, call.owner, call.spender) = 0
    /\ result = "Ok"

\* This step is decrease_allowance(owner, spender, delta) right after
\* increase_allowance(owner, spender, delta), for owner != spender: pre is the
\* ledger before the two calls, the primed ledger the one after them.
IncreaseThenDecrease ==
    /\ call.op = "increase_allowance"
    /\ call'.op = "decrease_allowance"
    /\ call'.owner = call.owner
    /\ call'.spender = call.spender
    /\ call'.value = call.value
    /\ call.owner # call.spender

\* C16, as claimed: increase_allowance then decrease_allowance by the same
\* delta, for owner != spender and any delta, leaves allowance(owner, spender),
\* all balances and total_supply as they were before the two calls.
C16_IncreaseThenDecreaseRestores ==
    [][IncreaseThenDecrease
         => /\ Get(allowances', <<call.owner, call.spender>>)
                 = allowance(pre, call.owner, call.spender)
            /\ balances' = pre.balances
            /\ total_supply' = pre.total_supply]_vars

\* C16, amended: the two calls both succeed and leave the balances and
\* total_supply as they were; they restore allowance(owner, spender) when the
\* previous allowance plus delta does not exceed the maximum amount, and leave
\* the maximum amount minus delta when it does (the increase saturates).
C16_IncreaseThenDecreaseRestoresUnsaturated ==
    [][IncreaseThenDecrease
         => /\ result = "Ok" /\ result' = "Ok"
            /\ Get(allowances', <<call.owner, call.spender>>)
                 = IF allowance(pre, call.owner, call.spender) + call.value <= MaxAmount
                   THEN allowance(pre, call.owner, call.spender)
                   ELSE MaxAmount - call.value
            /\ balances' = pre.balances
            /\ total_supply' = pre.total_supply]_vars

\* increase_allowance has raised a positive allowance without saturating, while
\* tokens exist: the state in which the decrease by the same delta is called.
C16_Witness ==
    /\ call.op = "increase_allowance"
    /\ call.owner # call.spender
    /\ call.value > 0
    /\ allowance(pre, call.owner, call.spender) > 0
    /\ allowance(pre, call.owner, call.spender) + call.value <= MaxAmount
    /\ allowance(Data, call.owner, call.spender)
         = allowance(pre, call.owner, call.spender) + call.value
    /\ total_supply > 0

\* C17: increase_allowance with owner != spender and delta > 0 succeeds, sets
\* the allowance to min(previous + delta, maximum amount), creating the entry
\* if absent, and returns the one event Approval(owner, spender, new allowance).
C17_IncreaseSaturates ==
    (call.op = "increase_allowance" /\ call.owner # call.spender /\ call.value > 0)
        => LET sum == allowance(pre, call.owner, call.spender) + call.value
               amount == IF sum < MaxAmount THEN sum ELSE MaxAmount
           IN  /\ result = "Ok"
               /\ <<call.owner, call.spender>> \in DOMAIN allowances
               /\ allowances[<<call.owner, call.spender>>] = amount
               /\ events = <<approval_event(call.owner, call.spender, amount)>>

\* The sum exceeds the maximum amount and the allowance stops there.
C17_Witness ==
    /\ call.op = "increase_allowance"
    /\ call.owner # call.spender
    /\ allowance(pre, call.owner, call.spender) + call.value > MaxAmount
    /\ allowance(pre, call.owner, call.spender) < MaxAmount
    /\ result = "Ok"
    /\ allowance(Data, call.owner, call.spender) = MaxAmount

\* C18: decrease_allowance with owner != spender and delta > 0 returns
\* InsufficientAllowance exactly when the allowance is below delta, leaving it
\* unchanged; otherwise it sets the allowance to previous - delta, removing the
\* entry at 0, and returns the one event Approval(owner, spender, new allowance).
C18_DecreaseNeedsAllowance ==
    (call.op = "decrease_allowance" /\ call.owner # call.spender /\ call.value > 0)
        => LET prev == allowance(pre, call.owner, call.spender) IN
           IF prev < call.value
           THEN result = InsufficientAllowance /\ allowances = pre.allowances
           ELSE /\ result = "Ok"
                /\ allowance(Data, call.owner, call.spender) = prev - call.value
                /\ (prev = call.value
                      => <<call.owner, call.spender>> \notin DOMAIN allowances)
                /\ events = <<approval_event(call.owner, call.spender,
                                             prev - call.value)>>

\* An allowance is lowered to 0 and its entry is gone.
C18_Witness ==
    /\ call.op = "decrease_allowance"
    /\ call.owner # call.spender
    /\ call.value > 0
    /\ <<call.owner, call.spender>> \in DOMAIN pre.allowances
    /\ <<call.owner, call.spender>> \notin DOMAIN allowances
    /\ result = "Ok"
    /\ Len(events) = 1

\* C19: increase_allowance and decrease_allowance with delta == 0 return Ok
\* with no events and change nothing, for every owner and spender.
C19_ZeroDeltaNoOp ==
    (call.op \in {"increase_allowance", "decrease_allowance"} /\ call.value = 0)
        => (result = "Ok" /\ events = <<>> /\ Data = pre)

\* An allowance in store is raised by 0.
C19_Witness ==
    /\ call.op = "increase_allowance"
    /\ call.value = 0
    /\ call.owner # call.spender
    /\ allowance(pre, call.owner, call.spender) > 0
    /\ result = "Ok"
    /\ allowances = pre.allowances

C21_MintRaisesSupplyAndBalance ==
    (call.op = "mint" /\ call.value > 0 /\ result = "Ok")
        => /\ total_supply = pre.total_supply + call.value
           /\ balance_of(Data, call.to) = balance_of(pre, call.to) + call.value
           /\ \A a \in Accounts \ {call.to} :
                  Get(balances, a) = Get(pre.balances, a)
           /\ DOMAIN balances = DOMAIN pre.balances \cup {call.to}
           /\ allowances = pre.allowances
           /\ events = <<transfer_event(None, call.to, call.value)>>

\* A mint to an account that already held tokens, with an allowance in place.
C21_Witness ==
    /\ call.op = "mint"
    /\ call.value > 0
    /\ result = "Ok"
    /\ balance_of(pre, call.to) > 0
    /\ balance_of(Data, call.to) > balance_of(pre, call.to)
    /\ allowances # EmptyMapping

\* C22: burn(from, value) with value > 0 returns InsufficientBalance exactly
\* when balance_of(from) < value; otherwise balance_of(from) and total_supply
\* each fall by value, the balance entry is removed when it reaches 0, and
\* exactly one event, Transfer(from, none, value), is returned.
C22_BurnNeedsBalance ==
    (call.op = "burn" /\ call.value > 0)
        => LET balance == balance_of(pre, call.from) IN
           /\ result = InsufficientBalance <=> balance < call.value
           /\ result \in {"Ok", InsufficientBalance}
           /\ result = "Ok"
                => /\ balance_of(Data, call.from) = balance - call.value
                   /\ total_supply = pre.total_supply - call.value
                   /\ balance = call.value => call.from \notin DOMAIN balances
                   /\ \A a \in Accounts \ {call.from} :
                          Get(balances, a) = Get(pre.balances, a)
                   /\ allowances = pre.allowances
                   /\ events = <<transfer_event(call.from, None, call.value)>>

\* A burn of an account's whole balance, which removes its entry.
C22_Witness ==
    /\ call.op = "burn"
    /\ call.value > 0
    /\ result = "Ok"
    /\ balance_of(pre, call.from) = call.value
    /\ call.from \notin DOMAIN balances
    /\ total_supply > 0

\* C23: mint, burn and burn_from called with value == 0 return Ok with no
\* events and change nothing; burn_from does so also when the caller has no
\* allowance.
C23_ZeroValueNoOp ==
    (call.op \in {"mint", "burn", "burn_from"} /\ call.value = 0)
        => /\ result = "Ok"
           /\ events = <<>>
           /\ Data = pre

\* A burn_from of 0 by a caller without allowance, from an account without
\* tokens, on a ledger that holds tokens.
C23_Witness ==
    /\ call.op = "burn_from"
    /\ call.value = 0
    /\ allowance(pre, call.from, call.caller) = 0
    /\ balance_of(pre, call.from) = 0
    /\ total_supply > 0
    /\ result = "Ok"

\* A successful mint(a, v) immediately followed by burn(a, v).
MintThenBurn ==
    /\ call.op = "mint"
    /\ result = "Ok"
    /\ call'.op = "burn"
    /\ call'.from = call.to
    /\ call'.value = call.value

\* C24: a successful mint(a, v) immediately followed by burn(a, v) restores
\* total_supply, balance_of(a) and the presence or absence of a's balance
\* entry to their values before the mint.
C24_MintThenBurnRestores ==
    [][MintThenBurn
         => /\ result' = "Ok"
            /\ total_supply' = pre.total_supply
            /\ Get(balances', call.to) = Get(pre.balances, call.to)
            /\ (call.to \in DOMAIN balances') = (call.to \in DOMAIN pre.balances)
            /\ balances' = pre.balances
            /\ allowances' = pre.allowances]_vars

\* The state between the two calls: a mint of value > 0 has just created the
\* balance entry of an account on a ledger that already held tokens.
C24_Witness ==
    /\ call.op = "mint"
    /\ result = "Ok"
    /\ call.value > 0
    /\ call.to \notin DOMAIN pre.balances
    /\ call.to \in DOMAIN balances
    /\ pre.total_supply > 0

ChangedAllowances ==
    {k \in Accounts \X Accounts : Get(allowances, k) # Get(pre.allowances, k)}

\* C27: whenever an operation changes allowance(owner, spender), it returns an
\* Approval event for that pair carrying the new amount, so the allowance is
\* always the amount of the most recent Approval event for the pair.
C27_AllowanceChangeEmitsApproval ==
    \A k \in ChangedAllowances :
        \E i \in 1..Len(events) :
            events[i] = approval_event(k[1], k[2], Get(allowances, k))

\* C28: burn_from(caller, account, value) with value > 0 returns
\* InsufficientBalance if value exceeds the caller's balance.
C28_BurnFromNeedsCallerBalance ==
    (call.op = "burn_from" /\ call.value > 0
        /\ call.value > balance_of(pre, call.caller))
        => result = InsufficientBalance

\* C29: the only errors an operation of the ledger returns are
\* InsufficientBalance, InsufficientAllowance and Custom; Custom is returned
\* only by mint, on an overflow of total_supply; ZeroRecipientAddress,
\* ZeroSenderAddress and SafeTransferCheckFailed are never returned.
C29_OnlyThreeErrors ==
    /\ result \in {"Ok", InsufficientBalance, InsufficientAllowance, Custom}
    /\ result \notin {ZeroRecipientAddress, ZeroSenderAddress, SafeTransferCheckFailed}
    /\ result = Custom
         => /\ call.op = "mint"
            /\ pre.total_supply + call.value > MaxAmount
    /\ result = InsufficientAllowance
         => call.op \in {"transfer_from", "decrease_allowance", "burn_from"}
    /\ result = InsufficientBalance
         => call.op \in {"transfer", "transfer_from", "burn", "burn_from"}

\* A mint of less than the maximum amount refused for overflow.
C29_Witness ==
    /\ result = Custom
    /\ call.op = "mint"
    /\ call.value < MaxAmount
    /\ Data = pre

\* C30: every successful operation that returns no events leaves
\* total_supply, balances and allowances unchanged; every operation that
\* changes any of them returns at least one event.
C30_NoEventsNoChange ==
    /\ (result = "Ok" /\ events = <<>>) => Data = pre
    /\ Data # pre => Len(events) >= 1

\* An approve of 0 that removes an allowance entry and returns its event.
C30_Witness ==
    /\ call.op = "approve"
    /\ call.value = 0
    /\ result = "Ok"
    /\ allowances # pre.allowances
    /\ Len(events) = 1


\* The last call moved tokens to an account: a transfer or transfer_from
\* between two accounts, or a mint, of value > 0, that returned Ok.
Credited ==
    /\ \/ call.op = "mint"
       \/ call.op = "transfer" /\ call.caller # call.to
       \/ call.op = "transfer_from" /\ call.from # call.to
    /\ call.value > 0
    /\ result = "Ok"

\* C31: the saturating arithmetic on balances and total_supply never clamps in
\* a reachable state: in transfer, transfer_from and mint the recipient's
\* balance plus value never exceeds the maximum amount, every balance being at
\* most total_supply, and in burn and burn_from total_supply is at least value.
C31_SaturationNeverClamps ==
    /\ \A a \in Accounts : balance_of(Data, a) <= total_supply
    /\ total_supply <= MaxAmount
    /\ Credited
         => /\ balance_of(pre, call.to) + call.value <= MaxAmount
            /\ balance_of(Data, call.to) = balance_of(pre, call.to) + call.value
    /\ (call.op \in {"burn", "burn_from"} /\ result = "Ok" /\ call.value > 0)
         => /\ pre.total_supply >= call.value
            /\ total_supply = pre.total_supply - call.value

\* A transfer that brings the recipient, who already held tokens, to exactly
\* the maximum amount.
C31_Witness ==
    /\ call.op = "transfer"
    /\ Credited
    /\ balance_of(pre, call.to) > 0
    /\ balance_of(Data, call.to) = MaxAmount

\* C32: approve, increase_allowance and decrease_allowance never change
\* total_supply or any balance, and change at most the single allowance entry
\* (owner, spender); transfer, mint and burn never change any allowance.
C32_AllowanceCallsTouchOneEntry ==
    /\ call.op \in {"approve", "increase_allowance", "decrease_allowance"}
         => /\ total_supply = pre.total_supply
            /\ balances = pre.balances
            /\ ChangedAllowances \subseteq {<<call.owner, call.spender>>}
            /\ (DOMAIN allowances \ DOMAIN pre.allowances)
                 \cup (DOMAIN pre.allowances \ DOMAIN allowances)
                 \subseteq {<<call.owner, call.spender>>}
    /\ call.op \in {"transfer", "mint", "burn"} => allowances = pre.allowances

\* An approve that changes its entry on a ledger that holds tokens and another
\* allowance.
C32_Witness ==
    /\ call.op = "approve"
    /\ ChangedAllowances = {<<call.owner, call.spender>>}
    /\ \E k \in DOMAIN allowances : k # <<call.owner, call.spender>>
    /\ total_supply > 0

\* The sender of the last call, a transfer or a transfer_from.
Sender == IF call.op = "transfer" THEN call.caller ELSE call.from

\* C33: transfer and transfer_from never change total_supply and never change
\* the balance of an account other than the sender (caller or from) and the
\* recipient (to); transfer_from and burn_from never change an allowance other
\* than (from, caller).
C33_TransfersTouchTwoBalances ==
    /\ call.op \in {"transfer", "transfer_from"}
         => /\ total_supply = pre.total_supply
            /\ \A a \in Accounts \ {Sender, call.to} :
                   /\ Get(balances, a) = Get(pre.balances, a)
                   /\ (a \in DOMAIN balances) = (a \in DOMAIN pre.balances)
    /\ call.op \in {"transfer_from", "burn_from"}
         => /\ ChangedAllowances \subseteq {<<call.from, call.caller>>}
            /\ (DOMAIN allowances \ DOMAIN pre.allowances)
                 \cup (DOMAIN pre.allowances \ DOMAIN allowances)
                 \subseteq {<<call.from, call.caller>>}

\* A transfer_from by a spender who holds tokens and is not the recipient,
\* while another allowance exists.
C33_Witness ==
    /\ call.op = "transfer_from"
    /\ result = "Ok"
    /\ call.value > 0
    /\ call.caller \notin {call.from, call.to}
    /\ call.from # call.to
    /\ balance_of(Data, call.caller) > 0
    /\ \E k \in DOMAIN allowances : k # <<call.from, call.caller>>

\* C34: in every reachable state allowance(a, a) == 0 for every account a: no
\* sequence of operations creates an allowance from an account to itself.
C34_NoSelfAllowance ==
    \A a \in Accounts :
        /\ allowance(Data, a, a) = 0
        /\ <<a, a>> \notin DOMAIN allowances

\* An increase_allowance of an account to itself, on a ledger that holds
\* allowances.
C34_Witness ==
    /\ call.op = "increase_allowance"
    /\ call.owner = call.spender
    /\ call.value > 0
    /\ result = "Ok"
    /\ allowances # EmptyMapping
    /\ allowance(Data, call.owner, call.owner) = 0

RECURSIVE NetOf(_, _)
NetOf(evs, a) ==
    IF evs = <<>> THEN 0
    ELSE LET e == Head(evs)
             net == IF e.type = "Transfer"
                    THEN (IF e.to = a THEN e.value ELSE 0)
                         - (IF e.from = a THEN e.value ELSE 0)
                    ELSE 0
         IN  net + NetOf(Tail(evs), a)

Outcome == [data |-> Data, result |-> result, events |-> events]

C38_NewNeverPanics ==
    /\ \A supply \in Amounts, creator \in Accounts :
           new(supply, creator).result = "Ok"
    /\ call.op = "new"
         => /\ pre.total_supply = 0
            /\ result = "Ok"
            /\ total_supply = call.supply

\* A ledger constructed with the maximum amount as its supply.
C38_Witness ==
    /\ call.op = "new"
    /\ call.supply = MaxAmount
    /\ result = "Ok"
    /\ total_supply = MaxAmount

====
